---- MODULE Spec2Model ----
(***************************************************************************)
(* Model of gsemantique/data/download.py: the retrying, batched,           *)
(* re-signing download of _STACDownloader (run, _async_download,           *)
(* _remove_empty_items) and the catalog assembly of Downloader.run that    *)
(* follows it.                                                             *)
(*                                                                         *)
(* Items are identified by their ids (integers), source collections by     *)
(* integers from 1.  A directory tree is a function from item id to        *)
(* "absent", "empty" (directory without files) or "files".  The variables  *)
(* of one _STACDownloader are those of the downloader that runs: in the    *)
(* grouped mode one runs after the other, each in its own directory.       *)
(*                                                                         *)
(* Collaborators outside the repository are modelled by their outcomes:    *)
(*  - STACCube._sign_metadata either returns or raises;                    *)
(*  - stac_asset.download_item_collection creates the directory of every   *)
(*    item of the batch, the items in any order and with awaits in         *)
(*    between, leaves it with or without files, and writes the batch's     *)
(*    item collection (all items of the batch) to file_name;               *)
(*  - os.listdir returns the entries in an arbitrary order;                *)
(*  - np.random.choice with the fixed seed returns one fixed sample, which *)
(*    depends on the number of items only.                                 *)
(***************************************************************************)
EXTENDS Integers, Sequences, FiniteSets, TLC

\* ------------------------------------------------------------------ bounds
MaxItems == 3
MaxRetries == 2
MaxBatch == 2
MaxSignFails == 2
MaxColls == 2
MaxCoord == 2
MaxTime == 2
MaxMsgs == 2

\* Python's None for reauth_batch_size
None == 0 - 1

VARIABLES
    \* configuration (constructor arguments and kwargs), never assigned again
    input_coll,         \* self.item_coll of the Downloader
    colls,              \* colls of _download_grouped: x.get_collection().id
                        \* of every item of input_coll
    by_collection,      \* argument of Downloader.run
    retries,            \* self.retries
    reauth_batch_size,  \* kwarg of _async_download
    preview_size,       \* kwarg of _async_download
    flaky,              \* ids whose assets the remote side may fail to serve
    geoms,              \* item id -> item.geometry, a box <<x0, y0, x1, y1>>
    datetimes,          \* item id -> item.get_datetime()
    out_dir_abs,        \* self.out_dir is an absolute path
    item_links,         \* the hrefs of the links that the items of item_coll
                        \* carry from the API they were found at, besides
                        \* the links of the hierarchy and the self link
    file_size,          \* the size of each file the download writes; only
                        \* _get_dir_size reads it
    \* the _STACDownloader that runs
    item_coll,          \* self.item_coll of the _STACDownloader
    row,                \* row["collection"] of _download_grouped, 0 outside
                        \* of its loop
    \* control
    pc,                 \* position in Downloader.run
    fault,              \* the exception that ended the run, "" if none
    i,                  \* loop variable of _STACDownloader.run
    phase,              \* "preview" or "full" batch loop of _async_download
    batch_i,            \* loop variable of the batch loop
    written,            \* the positions of its batch whose item directory
                        \* the awaited download_item_collection has written
    signed,             \* local of the signing loop
    on_hold_count,      \* local of the signing loop
    paused_log,         \* "Download paused" lines printed for this batch
    resumed_log,        \* "Download will be continued" lines for this batch
    \* file system
    out_dirs,           \* item directories <self.out_dir>/<id> of the object
                        \* that runs: a _STACDownloader, or the Downloader
    batch_files,        \* item-collection-batch-<i>.json under self.out_dir
    out_coll,           \* self.out_dir/item-collection.json
    tmp_exists,         \* the TemporaryDirectory of the preview exists
    tmp_dirs,           \* item directories under temp_dir
    tmp_coll,           \* temp_dir/item-collection.json
    \* results
    ratio,              \* local ratio of run, as <<len(coll), len(item_coll)>>
    reported,           \* what the two final print calls of run show
    catalog,            \* what catalog.save wrote under self.out_dir
    \* catalog assembly
    coll_files,         \* collection directory -> its item-collection.json
    garbled,            \* collection directories whose item-collection.json
                        \* does not parse
    asset_abs,          \* the asset hrefs written by the download are
                        \* absolute paths
    todo,               \* what is left of os.listdir(output_path)
    mem,                \* children of the pystac.Catalog object in memory
    \* the tasks of the current session of _async_download
    consumer,           \* message_handler_task (_async_message_handling)
    poller,             \* background_task (_calculate_dir_size)
    ready,              \* the tasks the event loop will run next, in order
    n_msgs,             \* download messages waiting in the queue messages
    sentinel,           \* the None that ends the session is in the queue
    wrote,              \* the poller of the session has assigned self._dir_size
    \* progress
    dir_size,           \* self._dir_size, None while the attribute is unset
    prev_size,          \* local prev_size of _async_message_handling
    bar,                \* size_bar.n, the cumulative value of the progress bar
    waited,             \* the consumer has waited in messages.get() since it
                        \* assigned last_checked
    \* history of the current call of _async_download
    sign_log,           \* calls of _sign_metadata that returned: <<phase, batch size>>
    sign_failed,        \* some call of _sign_metadata raised
    batches_done,       \* batches handed to the full download, in order
    cleaned,            \* _remove_empty_items(self.out_dir) ran in this attempt
    \* the Item objects of self.item_coll
    sign_orig,          \* a call of _sign_metadata was handed some of them
    orig_mutated        \* a download was handed, and rewrote, some of them

cfg == <<input_coll, colls, by_collection, retries, reauth_batch_size, preview_size,
         flaky, geoms, datetimes, out_dir_abs, item_links, file_size>>
dwl == <<item_coll, row>>
ctl == <<pc, fault, i, phase, batch_i>>
sgn == <<signed, on_hold_count, paused_log, resumed_log>>
fs == <<out_dirs, batch_files, out_coll>>
tmp == <<tmp_exists, tmp_dirs, tmp_coll>>
res == <<ratio, reported, catalog>>
hist == <<sign_log, sign_failed, batches_done, cleaned>>
cat == <<coll_files, garbled, asset_abs, todo, mem>>
tsk == <<consumer, poller, ready, n_msgs, sentinel, wrote>>
prg == <<dir_size, prev_size, bar, waited>>
obj == <<sign_orig, orig_mutated>>
vars == <<cfg, dwl, ctl, written, sgn, fs, tmp, res, hist, cat, tsk, obj, prg>>

\* ------------------------------------------------------------------ helpers
Min(a, b) == IF a < b THEN a ELSE b

Range(s) == {s[k] : k \in DOMAIN s}

Ids(n) == 1..n

IdSeq(n) == [k \in 1..n |-> k]

\* sequences of length k over S without repetition
InjSeqs(S, k) == {s \in [1..k -> S] : \A a, b \in 1..k : s[a] = s[b] => a = b}

NoFile == [exists |-> FALSE, items |-> <<>>]
File(items) == [exists |-> TRUE, items |-> items]

\* a directory tree without any item directory
NoDirs(n) == [d \in Ids(n) |-> "absent"]

\* the number of positions of s that hold x
Count(s, x) == Cardinality({k \in DOMAIN s : s[k] = x})

\* s and t hold the same elements the same number of times
SameBag(s, t) == \A x \in Range(s) \cup Range(t) : Count(s, x) = Count(t, x)

\* the concatenation of the sequences of ss, in order
RECURSIVE Flatten(_)
Flatten(ss) == IF ss = <<>> THEN <<>> ELSE Head(ss) \o Flatten(Tail(ss))

\* all orders in which the elements of S can be listed
Perms(S) == InjSeqs(S, Cardinality(S))

\* ------------------------------------------------------------------ batching
BatchSize_Whole(r, n) == n

\* batch_size = reauth_batch_size or len(coll)
BatchSize(r, n) == IF r = None \/ r = 0 THEN n ELSE r

\* range(0, n, bs)
BatchStarts(n, bs) == {k \in 0..(n - 1) : k % bs = 0}

Slice_Short(coll, k, bs) == SubSeq(coll, k + 1, Min(k + bs - 1, Len(coll)))

\* coll[k : k + bs]
Slice(coll, k, bs) == SubSeq(coll, k + 1, Min(k + bs, Len(coll)))

\* np.random.seed(42) followed by the permutation of n positions that
\* np.random.choice(..., replace=False) draws from: the Mersenne Twister
\* seeded with 42 and the shuffle of numpy's RandomState, positions from 1
Seed42Permutation(n) ==
    CASE n = 1 -> <<1>>
      [] n = 2 -> <<2, 1>>
      [] n = 3 -> <<1, 2, 3>>
      [] n = 4 -> <<2, 4, 1, 3>>
      [] n = 5 -> <<2, 5, 3, 1, 4>>
      [] n = 6 -> <<1, 2, 6, 3, 5, 4>>
      [] n = 25 -> <<9, 17, 1, 24, 12, 10, 14, 2, 23, 6, 3, 13, 16, 4, 5, 21,
                     18, 22, 19, 25, 8, 11, 15, 20, 7>>

\* np.random.choice(a, size=size, replace=False) after np.random.seed(42):
\* the first size entries of the permutation
RandomChoice(a, size) ==
    [k \in 1..size |-> a[Seed42Permutation(Len(a))[k]]]

\* pre_coll of _async_download, drawn when the preview runs
pre_coll ==
    IF Len(item_coll) >= preview_size
    THEN RandomChoice(item_coll, preview_size)
    ELSE <<>>

\* the rows of grouped_df: the collection ids of the input, which groupby
\* sorts
GroupedDf == Range(colls)

\* row["item"]: the items of collection c, in the order of the input
RowItems(c) ==
    LET index == SelectSeq([k \in DOMAIN colls |-> k], LAMBDA k : colls[k] = c)
    IN  [k \in DOMAIN index |-> input_coll[index[k]]]

\* the rows that follow row r in grouped_df (all of them for r = 0)
RowsAfter(r) == {c \in GroupedDf : c > r}

PhaseColl_Missing ==
    IF phase = "preview" THEN pre_coll
    ELSE SelectSeq(item_coll, LAMBDA x : out_dirs[x] # "files")

\* the collection the batch loop of the current phase runs over
PhaseColl == IF phase = "preview" THEN pre_coll ELSE item_coll

CurBatchSize == BatchSize(reauth_batch_size, Len(PhaseColl))

CurBatch == Slice(PhaseColl, batch_i, CurBatchSize)

EnterBatch_AlwaysSign ==
    /\ signed' = FALSE
    /\ on_hold_count' = 0
    /\ paused_log' = 0
    /\ resumed_log' = 0
    /\ pc' = "sign"

\* the top of one iteration of the batch loop: the locals of the signing loop
\* are set, and signing is skipped when reauth_batch_size is None
EnterBatch ==
    /\ signed' = FALSE
    /\ on_hold_count' = 0
    /\ paused_log' = 0
    /\ resumed_log' = 0
    /\ pc' = IF reauth_batch_size # None THEN "sign" ELSE "fetch"

\* _async_download returns: its locals are gone
ReturnLocals ==
    /\ batch_i' = 0
    /\ signed' = FALSE
    /\ on_hold_count' = 0
    /\ paused_log' = 0
    /\ resumed_log' = 0

\* ------------------------------------------------------------------ tasks
\* loop.call_soon of the step of task t: once in the queue, at its end
Wake(q, t) == IF t \in Range(q) THEN q ELSE Append(q, t)

\* messages.put: the queue wakes the consumer that waits in messages.get()
PutWakes(q) == IF consumer = "waiting" THEN Wake(q, "consumer") ELSE q

\* messages = asyncio.Queue() and asyncio.create_task(_async_message_handling)
NewSession ==
    /\ consumer' = "created"
    /\ poller' = "none"
    /\ ready' = <<"consumer">>
    /\ n_msgs' = 0
    /\ sentinel' = FALSE
    /\ wrote' = FALSE

\* await messages.put(None), then await message_handler_task
PutSentinel ==
    /\ sentinel' = TRUE
    /\ ready' = PutWakes(ready)
    /\ UNCHANGED <<consumer, poller, n_msgs, wrote>>

\* the coroutine _async_download is suspended in an await: in
\* download_item_collection, or in await message_handler_task
Suspended == pc \in {"fetch", "pre_end", "merge"}

\* the coroutine _async_download has been inside time.sleep(1) of the
\* signing loop
Sleeping == pc = "sign" /\ on_hold_count >= 1

\* the event loop runs a task only while no other coroutine is running:
\* time.sleep does not give the control back to the loop
LoopRuns(t) == Suspended /\ ready # <<>> /\ Head(ready) = t

\* _get_dir_size: the sum of the sizes of the files below the directory:
\* those of the item directories and the JSON files next to them
GetDirSize(dirs, json_files) ==
    (Cardinality({d \in DOMAIN dirs : dirs[d] = "files"}) + json_files) * file_size

\* _get_dir_size(directory) of the session: temp_dir in the preview,
\* self.out_dir in the full download
SessionDirSize ==
    IF phase = "preview"
    THEN GetDirSize(tmp_dirs, IF tmp_coll.exists THEN 1 ELSE 0)
    ELSE GetDirSize(out_dirs, Cardinality(DOMAIN batch_files)
                              + (IF out_coll.exists THEN 1 ELSE 0))

Due_Always(w) == {TRUE}

\* current_time - last_checked >= interval, as the set of its possible
\* values, w telling whether the coroutine has been suspended in
\* messages.get() since it assigned last_checked: after a suspension the
\* interval (one second) may be over or not; the statements between the
\* assignment and the test, run without a suspension, take less than the
\* interval
Due(w) == IF w THEN BOOLEAN ELSE {FALSE}

BarUpdate_Absolute(n, size, prev) == n + size

\* size_bar.update(self._dir_size - prev_size)
BarUpdate(n, size, prev) == n + (size - prev)

Cancel_Forgotten(p) == p

\* background_task.cancel()
Cancel(p) == IF p \in {"created", "sleeping"} THEN "cancelled" ELSE p

\* ------------------------------------------------------------------ cleanup
\* _find_empty_subdirs: the item directories that hold nothing
FindEmptySubdirs(dirs) == {d \in DOMAIN dirs : dirs[d] = "empty"}

\* list.remove(x): s without the first occurrence of x
ListRemove(s, x) ==
    LET k == CHOOSE j \in DOMAIN s : s[j] = x /\ \A m \in 1..(j - 1) : s[m] # x
    IN  SubSeq(s, 1, k - 1) \o SubSeq(s, k + 1, Len(s))

\* for id in rm_items: all_items.remove(id); ok is FALSE when remove raises
RECURSIVE RemoveEach(_, _)
RemoveEach(s, S) ==
    IF S = {} THEN [ok |-> TRUE, list |-> s]
    ELSE LET x == CHOOSE y \in S : TRUE
         IN  IF x \in Range(s) THEN RemoveEach(ListRemove(s, x), S \ {x})
             ELSE [ok |-> FALSE, list |-> s]

\* _remove_empty_items(out_path) on the tree dirs and the file coll of out_path
RemoveEmptyItems(dirs, coll) ==
    LET empty_dirs == FindEmptySubdirs(dirs)
        removed == [d \in DOMAIN dirs |->
                       IF d \in empty_dirs THEN "absent" ELSE dirs[d]]
        all_items == RemoveEach(coll.items, empty_dirs)
        keep_items == SelectSeq(coll.items, LAMBDA x : x \in Range(all_items.list))
    IN  IF ~coll.exists
        THEN [err |-> "FileNotFoundError", dirs |-> removed, coll |-> coll]
        ELSE IF ~all_items.ok
        THEN [err |-> "ValueError", dirs |-> removed, coll |-> coll]
        ELSE [err |-> "", dirs |-> removed, coll |-> File(keep_items)]

\* _create_full_extent raises on min(datetimes) of an empty list
CreateFullExtentErr(items) == IF items = <<>> THEN "ValueError" ELSE ""

\* ------------------------------------------------------------------ catalog
\* Python's min and max over a non-empty collection
SetMin(S) == CHOOSE m \in S : \A y \in S : m <= y

SetMax(S) == CHOOSE m \in S : \A y \in S : m >= y

\* shape(geometry).buffer(0): the area the footprint covers, as the set of
\* unit cells <<x, y>> (the cell [x, x+1] x [y, y+1])
Polygon(box) ==
    {<<x, y>> : x \in box[1]..(box[3] - 1), y \in box[2]..(box[4] - 1)}

\* shapely.ops.unary_union
UnaryUnion(polygons) == UNION polygons

\* geometry.bounds: (minx, miny, maxx, maxy)
Bounds_LowerCorner(g) ==
    <<SetMin({c[1] : c \in g}), SetMin({c[2] : c \in g}),
      SetMax({c[1] : c \in g}), SetMax({c[2] : c \in g})>>

Bounds(g) ==
    <<SetMin({c[1] : c \in g}), SetMin({c[2] : c \in g}),
      SetMax({c[1] : c \in g}) + 1, SetMax({c[2] : c \in g}) + 1>>

GetSpatialExtent(items) ==
    Bounds(UnaryUnion({Polygon(geoms[items[k]]) : k \in DOMAIN items}))

GetTemporalExtent(startime, endtime) == <<startime, endtime>>

\* _create_full_extent of a non-empty item list
CreateFullExtent(items) ==
    [bbox |-> GetSpatialExtent(items),
     interval |-> GetTemporalExtent(
                      SetMin({datetimes[items[k]] : k \in DOMAIN items}),
                      SetMax({datetimes[items[k]] : k \in DOMAIN items}))]

\* _load_and_add_collection on the item-collection.json of directory d
\* (0 is the root directory): the exception it raises, or the collection it
\* adds to the catalog
LoadAndAddCollection(d, file, unreadable) ==
    IF unreadable
    THEN [err |-> "JSONDecodeError", coll |-> <<>>]
    ELSE IF CreateFullExtentErr(file.items) # ""
    THEN [err |-> CreateFullExtentErr(file.items), coll |-> <<>>]
    ELSE [err |-> "",
          coll |-> <<[dir |-> d, items |-> file.items,
                      extent |-> CreateFullExtent(file.items)]>>]

\* the catalog_type handed to catalog.save
CatalogType == "SELF_CONTAINED"

\* An href is one of three kinds: "rel", a relative path; "abs", an
\* absolute path of the file system; "url", the address of a resource of
\* another host.

\* pystac make_absolute_href against the working directory: what
\* normalize_hrefs does to the root href it is given
MakeAbsoluteHref(href) == IF href = "rel" THEN "abs" ELSE href

\* pystac make_relative_href(href, start): a path of the file system of
\* start becomes a path relative to start; an href of another scheme or
\* host is returned as it is
MakeRelativeHref(href, start) ==
    IF href = "url" \/ start = "url" THEN href ELSE "rel"

\* catalog.normalize_hrefs(output_path): the self href of the catalog and
\* of every collection and item below it
SelfHref(is_abs) == MakeAbsoluteHref(IF is_abs THEN "abs" ELSE "rel")

\* the links pystac keeps as references between the objects of a catalog
HierarchicalLinks == {"root", "parent", "child", "item", "collection"}

\* the href catalog.save writes for a link of relation rel of an object
\* at owner: the links of the hierarchy relative to the owner unless the
\* catalog is ABSOLUTE_PUBLISHED, every other link as the object carries it
LinkHref(catalog_type, rel, target, owner) ==
    IF rel \in HierarchicalLinks /\ catalog_type # "ABSOLUTE_PUBLISHED"
    THEN MakeRelativeHref(target, owner)
    ELSE target

\* pystac writes a self link for every object of an ABSOLUTE_PUBLISHED
\* catalog, for the root of a RELATIVE_PUBLISHED one, for none otherwise
HasSelfLink(catalog_type, is_root) ==
    \/ catalog_type = "ABSOLUTE_PUBLISHED"
    \/ catalog_type = "RELATIVE_PUBLISHED" /\ is_root

\* catalog.make_all_asset_hrefs_relative, on one asset href of an item
\* whose self href is self
MakeAllAssetHrefsRelative(href, self) == MakeRelativeHref(href, self)

\* the hrefs in the files catalog.save writes, as <<file, field, kind>>:
\* catalog.json, every collection.json and every item json; nothing in
\* _load_and_add_collection removes a link from an item
SavedHrefs(children) ==
    LET self == SelfHref(out_dir_abs)
        link(rel) == LinkHref(CatalogType, rel, self, self)
        asset == MakeAllAssetHrefsRelative(IF asset_abs THEN "abs" ELSE "rel",
                                           self)
    IN  {<<"catalog", "root", link("root")>>}
        \cup (IF HasSelfLink(CatalogType, TRUE)
              THEN {<<"catalog", "self", self>>}
              ELSE {})
        \cup UNION {{<<"catalog", "child", link("child")>>,
                     <<"collection", "root", link("root")>>,
                     <<"collection", "parent", link("parent")>>,
                     <<"collection", "item", link("item")>>,
                     <<"item", "root", link("root")>>,
                     <<"item", "parent", link("parent")>>,
                     <<"item", "collection", link("collection")>>,
                     <<"item", "asset", asset>>}
                    \cup {<<"item", "link",
                             LinkHref(CatalogType, "other", h, self)>> :
                              h \in item_links} : k \in DOMAIN children}
        \cup (IF children # <<>> /\ HasSelfLink(CatalogType, FALSE)
              THEN {<<"collection", "self", self>>, <<"item", "self", self>>}
              ELSE {})

NotSaved == [saved |-> FALSE, colls |-> <<>>, hrefs |-> {}]

\* catalog.normalize_hrefs, make_all_asset_hrefs_relative and catalog.save
Saved(children) ==
    [saved |-> TRUE, colls |-> children, hrefs |-> SavedHrefs(children)]

\* the footprint and the time the run gives item k when a claim does not
\* depend on them: unit squares along the diagonal, one per time step
DiagGeoms(n) == [k \in Ids(n) |-> <<k - 1, k - 1, k, k>>]

Boxes ==
    {b \in (0..MaxCoord) \X (0..MaxCoord) \X (0..MaxCoord) \X (0..MaxCoord) :
        b[1] < b[3] /\ b[2] < b[4]}

\* the item lists a download can leave in an item-collection.json for the
\* requested ids S: any of them, in any order of the merge
Retrieved(S) == UNION {Perms(T) : T \in SUBSET S}

\* x.get_collection().id of the item at position k of the input: the
\* source collections take turns
CollOf(k) == ((k - 1) % MaxColls) + 1

CollDirs == 1..MaxColls

\* ------------------------------------------------------------------ retry loop
RatioComplete_Never(r) == FALSE

\* ratio == 1.0, for ratio = r[1] / r[2]
RatioComplete(r) == r[1] = r[2]

HasNextIteration_OneMore(k, r) == k < r

\* for i in range(self.retries): another iteration follows iteration k
HasNextIteration(k, r) == k + 1 < r

PausedLine_Every(c) == c >= 1

\* if on_hold_count == 1: the "paused" line is printed
PausedLine(c) == c = 1

Artifacts_NotAwaited(files, k, batch) == files

\* file_name = item-collection-batch-<k>.json: written, or overwritten
Artifacts(files, k, batch) == (k :> batch) @@ files

MergeOrders_DropLast(S) ==
    IF S = {} THEN {<<>>}
    ELSE Perms(S \ {CHOOSE m \in S : \A k \in S : k <= m})

\* os.listdir of out_dir, filtered by the prefix item-collection-batch-
MergeOrders(S) == Perms(S)

ExitTempDir_KeepOnError(err) == err # ""

\* with TemporaryDirectory() as temp_dir: whether temp_dir exists after the
\* block, left normally (err = "") or by an exception
ExitTempDir(err) == FALSE

\* ------------------------------------------------------------------ Init
TypeOK ==
    /\ pc \in {"run", "attempt", "sign", "fetch", "pre_end", "merge", "cleanup",
               "returned", "catalog", "cat_loop", "saved", "fault"}
    /\ by_collection \in BOOLEAN
    /\ Len(colls) = Len(input_coll)
    /\ row \in {0} \cup GroupedDf
    /\ phase \in {"preview", "full"}
    /\ i \in 0..(retries - 1)
    /\ fault \in {"", "ValueError", "FileNotFoundError", "JSONDecodeError"}
    /\ catalog.saved \in BOOLEAN
    /\ asset_abs \in BOOLEAN
    /\ out_dir_abs \in BOOLEAN
    /\ item_links \in SUBSET {"url"}
    /\ file_size \in Nat
    /\ garbled \subseteq DOMAIN coll_files \cup {0}
    /\ consumer \in {"none", "created", "waiting", "done", "failed"}
    /\ poller \in {"none", "created", "sleeping", "cancelled", "ended"}
    /\ n_msgs \in 0..MaxMsgs
    /\ sentinel \in BOOLEAN
    /\ wrote \in BOOLEAN
    /\ written \subseteq DOMAIN input_coll
    /\ dir_size \in {None} \cup Nat
    /\ prev_size \in Nat
    /\ bar \in Int
    /\ waited \in BOOLEAN
    /\ sign_orig \in BOOLEAN
    /\ orig_mutated \in BOOLEAN
    /\ \A a, b \in DOMAIN ready : ready[a] = ready[b] => a = b

\* the locals of a _STACDownloader that has not run yet
InitRun ==
    /\ fault = ""
    /\ i = 0
    /\ phase = "full"
    /\ batch_i = 0
    /\ written = {}
    /\ signed = FALSE
    /\ on_hold_count = 0
    /\ paused_log = 0
    /\ resumed_log = 0
    /\ batch_files = <<>>
    /\ tmp_exists = FALSE
    /\ tmp_dirs = NoDirs(Len(input_coll))
    /\ tmp_coll = NoFile
    /\ ratio = <<0, 0>>
    /\ reported = <<>>
    /\ catalog = NotSaved
    /\ sign_log = <<>>
    /\ sign_failed = FALSE
    /\ batches_done = <<>>
    /\ cleaned = FALSE
    /\ todo = <<>>
    /\ mem = <<>>
    /\ consumer = "none"
    /\ poller = "none"
    /\ ready = <<>>
    /\ n_msgs = 0
    /\ sentinel = FALSE
    /\ wrote = FALSE
    /\ dir_size = None
    /\ prev_size = 0
    /\ bar = 0
    /\ waited = FALSE
    /\ sign_orig = FALSE
    /\ orig_mutated = FALSE

\* the state after Downloader(item_coll, out_dir, **kwargs), before run
InitState ==
    /\ InitRun
    /\ pc = "run"
    /\ item_coll = <<>>
    /\ row = 0
    /\ out_dirs = NoDirs(Len(input_coll))
    /\ out_coll = NoFile
    /\ geoms = DiagGeoms(Len(input_coll))
    /\ datetimes = IdSeq(Len(input_coll))
    /\ out_dir_abs = FALSE
    /\ item_links = {}
    /\ coll_files = <<>>
    /\ garbled = {}
    /\ asset_abs = FALSE

\* items 1..n of the source collections 1..MaxColls, downloaded grouped
\* (the default) or into one directory; the downloads of items 1 and 2 may
\* fail
Init ==
    /\ \E n \in 1..MaxItems : input_coll = IdSeq(n)
    /\ colls = [k \in DOMAIN input_coll |-> CollOf(k)]
    /\ by_collection \in BOOLEAN
    /\ retries \in {1, MaxRetries}
    /\ reauth_batch_size \in {None} \cup 0..MaxBatch
    /\ preview_size \in {2, MaxItems + 1}
    /\ flaky = Range(input_coll) \cap {1, 2}
    /\ file_size = 0
    /\ InitState

\* ------------------------------------------------------------------ actions
\* run, top of a loop iteration, into _async_download up to its first batch
StartDownload ==
    /\ pc = "attempt"
    /\ sign_log' = <<>>
    /\ sign_failed' = FALSE
    /\ batches_done' = <<>>
    /\ cleaned' = FALSE
    /\ batch_i' = 0
    /\ IF Len(item_coll) >= preview_size
       THEN /\ phase' = "preview"
            /\ tmp_exists' = TRUE
       ELSE /\ phase' = "full"
            /\ tmp_exists' = FALSE
    /\ NewSession
    /\ EnterBatch
    /\ UNCHANGED <<cfg, dwl, written, prg, obj, cat, fault, i, fs, tmp_dirs, tmp_coll, res>>

\* ------------------------------------------------------------- Item objects
\* an Item object is one of self.item_coll or a copy of one
Objects == {"original", "copy"}

\* the objects in batch = coll[i : i + batch_size]: a slice of an
\* ItemCollection holds the objects of the collection; pre_coll holds what
\* pystac.ItemCollection(items=...) made of the sampled objects of
\* self.item_coll, which are clones or the objects themselves
Sliced(ph) == IF ph = "full" THEN {"original"} ELSE Objects

\* list(batch): a new list of the same objects
ListOf(o) == o

\* what the batch holds after the signing loop or after
\* pystac.ItemCollection(items=batch): the same objects or new ones
Rewrapped(o) == {o, "copy"}

Deepcopy_Shared(o) == o

\* copy.deepcopy(batch) of the standard library: every Item of the result
\* is a new object, whichever object of the batch it was made from
Deepcopy(o) == "copy"

\* a call of STACCube._sign_metadata(list(batch))
SignReceives ==
    \E o \in Sliced(phase) :
        sign_orig' = (sign_orig \/ ListOf(o) = "original")

\* stac_asset.download_item_collection rewrites the asset hrefs of the items
\* it is handed
FetchReceives ==
    \E o \in Sliced(phase) : \E w \in Rewrapped(o) :
        orig_mutated' = (orig_mutated \/ Deepcopy(w) = "original")

\* STACCube._sign_metadata(list(batch)) raises: the except branch
SignFail ==
    /\ pc = "sign"
    /\ ~signed
    /\ on_hold_count < MaxSignFails
    /\ on_hold_count' = on_hold_count + 1
    /\ paused_log' = IF PausedLine(on_hold_count + 1)
                     THEN paused_log + 1 ELSE paused_log
    /\ sign_failed' = TRUE
    /\ SignReceives
    /\ UNCHANGED <<cfg, dwl, written, prg, orig_mutated, cat, tsk, ctl, signed, resumed_log, fs, tmp, res, sign_log,
                   batches_done, cleaned>>

\* STACCube._sign_metadata(list(batch)) returns: the loop ends
SignOk ==
    /\ pc = "sign"
    /\ ~signed
    /\ signed' = TRUE
    /\ resumed_log' = IF on_hold_count # 0 THEN resumed_log + 1 ELSE resumed_log
    /\ sign_log' = Append(sign_log, <<phase, Len(CurBatch)>>)
    /\ pc' = "fetch"
    /\ SignReceives
    /\ UNCHANGED <<cfg, dwl, written, prg, orig_mutated, cat, tsk, fault, i, phase, batch_i, on_hold_count, paused_log,
                   fs, tmp, res, sign_failed, batches_done, cleaned>>

\* the directory an item is downloaded to, below the directory handed to
\* download_item_collection: the item's id
ItemDir(item) == item

\* the directories of the items of batch after download_item_collection:
\* every directory is made; those of failed hold no file
Downloaded(dirs, batch, failed) ==
    [d \in DOMAIN dirs |->
        IF d \in {ItemDir(batch[k]) : k \in DOMAIN batch}
        THEN (IF d \in failed THEN "empty" ELSE "files")
        ELSE dirs[d]]

\* the batch loop after the download of the batch at batch_i
NextBatch(after) ==
    IF batch_i + CurBatchSize < Len(PhaseColl)
    THEN /\ batch_i' = batch_i + CurBatchSize
         /\ EnterBatch
         /\ UNCHANGED tsk
    ELSE /\ batch_i' = batch_i
         /\ pc' = after
         /\ PutSentinel
         /\ UNCHANGED sgn

\* the item directories download_item_collection may leave for the items of
\* batch: every directory is made, those of the items that fail hold no file
Outcomes(dirs, batch) ==
    {Downloaded(dirs, batch, failed) : failed \in SUBSET (Range(batch) \cap flaky)}

\* the items of batch at the positions of K, in the order of the batch
Pick(batch, K) ==
    LET index == SelectSeq([k \in DOMAIN batch |-> k], LAMBDA k : k \in K)
    IN  [j \in DOMAIN index |-> batch[index[j]]]

\* the positions of the batch whose item the awaited
\* download_item_collection has not written yet
Unwritten == DOMAIN CurBatch \ written

\* download_item_collection, while it is awaited, writes the directory of
\* one more item of its batch, whichever download completes next, and
\* yields: into temp_dir in the preview, into self.out_dir in the full
\* download
DownloadWrites ==
    /\ pc = "fetch"
    /\ \E k \in Unwritten :
         /\ written' = written \cup {k}
         /\ IF phase = "preview"
            THEN /\ tmp_dirs' \in Outcomes(tmp_dirs, Pick(CurBatch, {k}))
                 /\ UNCHANGED out_dirs
            ELSE /\ out_dirs' \in Outcomes(out_dirs, Pick(CurBatch, {k}))
                 /\ UNCHANGED tmp_dirs
    /\ UNCHANGED <<cfg, dwl, ctl, sgn, batch_files, out_coll, tmp_exists, tmp_coll, res,
                   hist, cat, tsk, obj, prg>>

\* preview: download_item_collection of one batch into temp_dir returns,
\* having written the item directories that were left to write and
\* item-collection.json
PreviewFetch ==
    /\ pc = "fetch"
    /\ phase = "preview"
    /\ tmp_dirs' \in Outcomes(tmp_dirs, Pick(CurBatch, Unwritten))
    /\ written' = {}
    /\ tmp_coll' = File(CurBatch)
    /\ NextBatch("pre_end")
    /\ FetchReceives
    /\ UNCHANGED <<cfg, dwl, prg, sign_orig, cat, fault, i, phase, fs, tmp_exists, res, hist>>

\* preview: await message_handler_task returns, cleanup of temp_dir, size evaluation, end of the with
\* block; then the first batch of the full download
PreviewEnd ==
    /\ pc = "pre_end"
    /\ consumer = "done"
    /\ ready = <<>>
    /\ LET r == RemoveEmptyItems(tmp_dirs, tmp_coll)
       IN  IF r.err # ""
           THEN /\ pc' = "fault"
                /\ fault' = r.err
                /\ phase' = phase
                /\ ReturnLocals
                /\ UNCHANGED tsk
           ELSE /\ fault' = fault
                /\ phase' = "full"
                /\ batch_i' = 0
                /\ NewSession
                /\ EnterBatch
    /\ tmp_exists' = ExitTempDir(RemoveEmptyItems(tmp_dirs, tmp_coll).err)
    /\ tmp_dirs' = NoDirs(Len(input_coll))
    /\ tmp_coll' = NoFile
    /\ UNCHANGED <<cfg, dwl, written, prg, obj, cat, i, fs, res, hist>>

\* full download: download_item_collection of one batch into out_dir
\* returns, having written the item directories that were left to write and
\* the file of the batch
FetchBatch ==
    /\ pc = "fetch"
    /\ phase = "full"
    /\ out_dirs' \in Outcomes(out_dirs, Pick(CurBatch, Unwritten))
    /\ written' = {}
    /\ batch_files' = Artifacts(batch_files, batch_i, CurBatch)
    /\ batches_done' = Append(batches_done, CurBatch)
    /\ NextBatch("merge")
    /\ FetchReceives
    /\ UNCHANGED <<cfg, dwl, prg, sign_orig, cat, fault, i, phase, out_coll, tmp, res, sign_log,
                   sign_failed, cleaned>>

\* await message_handler_task returns, then the merge of the per-batch
\* files in the order of os.listdir
Merge ==
    /\ pc = "merge"
    /\ consumer = "done"
    /\ ready = <<>>
    /\ \E order \in MergeOrders(DOMAIN batch_files) :
           out_coll' = File(Flatten([k \in DOMAIN order |-> batch_files[order[k]]]))
    /\ batch_files' = <<>>
    /\ pc' = "cleanup"
    /\ ReturnLocals
    /\ UNCHANGED <<cfg, dwl, written, prg, obj, cat, tsk, fault, i, phase, out_dirs, tmp, res, hist>>

\* _async_message_handling up to its first messages.get(): the progress bar
\* and the locals are set, the poller is created; the coroutine goes on
\* without a pause when the queue is not empty
ConsumerStart ==
    /\ LoopRuns("consumer")
    /\ consumer = "created"
    /\ consumer' = "waiting"
    /\ poller' = "created"
    /\ ready' = IF n_msgs > 0 \/ sentinel
                THEN Append(ready, "poller")
                ELSE Append(Tail(ready), "poller")
    /\ prev_size' = 0
    /\ bar' = 0
    /\ waited' = ~(n_msgs > 0 \/ sentinel)
    /\ UNCHANGED <<cfg, dwl, written, obj, cat, ctl, sgn, fs, tmp, res, hist, n_msgs, sentinel,
                   wrote, dir_size>>

\* _async_message_handling: messages.get() returns a download message;
\* the bar is updated when the interval is over, and reading self._dir_size
\* while it is unset ends the task with an AttributeError; the coroutine
\* goes on without a pause while the queue holds more
ConsumerHandle ==
    /\ LoopRuns("consumer")
    /\ consumer = "waiting"
    /\ n_msgs > 0
    /\ n_msgs' = n_msgs - 1
    /\ \E due \in Due(waited) :
         IF due /\ dir_size = None
         THEN /\ consumer' = "failed"
              /\ ready' = Tail(ready)
              /\ UNCHANGED <<prev_size, bar, waited>>
         ELSE /\ consumer' = consumer
              /\ ready' = IF n_msgs > 1 \/ sentinel THEN ready ELSE Tail(ready)
              /\ bar' = IF due THEN BarUpdate(bar, dir_size, prev_size) ELSE bar
              /\ prev_size' = IF due THEN dir_size ELSE prev_size
              /\ waited' = IF n_msgs > 1 \/ sentinel
                            THEN waited /\ ~due
                            ELSE TRUE
    /\ UNCHANGED <<cfg, dwl, written, obj, cat, ctl, sgn, fs, tmp, res, hist, poller, sentinel,
                   wrote, dir_size>>

\* _async_message_handling: messages.get() takes the None out of the queue;
\* break, cancel of the background task, close of the bar, return
ConsumerExit ==
    /\ LoopRuns("consumer")
    /\ consumer = "waiting"
    /\ n_msgs = 0
    /\ sentinel
    /\ sentinel' = FALSE
    /\ consumer' = "done"
    /\ poller' = Cancel(poller)
    /\ ready' = IF Cancel(poller) = "cancelled"
                THEN Wake(Tail(ready), "poller")
                ELSE Tail(ready)
    /\ prev_size' = 0
    /\ bar' = 0
    /\ waited' = FALSE
    /\ UNCHANGED <<cfg, dwl, written, obj, cat, ctl, sgn, fs, tmp, res, hist, n_msgs,
                   wrote, dir_size>>

\* _calculate_dir_size: one turn of its loop up to asyncio.sleep, or the
\* CancelledError that ends it
PollerRun ==
    /\ LoopRuns("poller")
    /\ poller \in {"created", "sleeping", "cancelled"}
    /\ poller' = IF poller = "cancelled" THEN "ended" ELSE "sleeping"
    /\ ready' = Tail(ready)
    /\ IF poller = "cancelled"
       THEN UNCHANGED <<dir_size, wrote>>
       ELSE /\ dir_size' = SessionDirSize
            /\ wrote' = TRUE
    /\ UNCHANGED <<cfg, dwl, written, obj, cat, ctl, sgn, fs, tmp, res, hist, consumer, n_msgs,
                   sentinel, prev_size, bar, waited>>

\* asyncio.sleep(interval) of the poller is over; time passes while
\* _async_download is suspended and while it is inside time.sleep
TimerFires ==
    /\ Suspended \/ Sleeping
    /\ poller = "sleeping"
    /\ "poller" \notin Range(ready)
    /\ ready' = Append(ready, "poller")
    /\ UNCHANGED <<cfg, dwl, written, obj, prg, cat, ctl, sgn, fs, tmp, res, hist, consumer, poller,
                   n_msgs, sentinel, wrote>>

\* download_item_collection puts a message into the queue
DownloadEvent ==
    /\ pc = "fetch"
    /\ n_msgs < MaxMsgs
    /\ n_msgs' = n_msgs + 1
    /\ ready' = PutWakes(ready)
    /\ UNCHANGED <<cfg, dwl, written, obj, prg, cat, ctl, sgn, fs, tmp, res, hist, consumer, poller,
                   sentinel, wrote>>

\* run after _async_download: cleanup, ratio, and the three-way branch
CleanupAndVerify ==
    /\ pc = "cleanup"
    /\ LET r == RemoveEmptyItems(out_dirs, out_coll)
           n == Len(r.coll.items)
       IN  /\ out_dirs' = r.dirs
           /\ out_coll' = r.coll
           /\ cleaned' = TRUE
           /\ IF r.err # ""
              THEN /\ pc' = "fault"
                   /\ fault' = r.err
                   /\ UNCHANGED <<i, ratio, reported>>
              ELSE /\ fault' = fault
                   /\ ratio' = <<n, Len(item_coll)>>
                   /\ IF RatioComplete(ratio')
                      THEN /\ pc' = "returned"
                           /\ reported' = ratio'
                           /\ i' = i
                      ELSE IF HasNextIteration(i, retries)
                      THEN /\ pc' = "attempt"
                           /\ reported' = reported
                           /\ i' = i + 1
                      ELSE /\ pc' = "returned"
                           /\ reported' = ratio'
                           /\ i' = i
    /\ UNCHANGED <<cfg, dwl, written, prg, obj, cat, tsk, phase, batch_i, sgn, batch_files, tmp, catalog,
                   sign_log, sign_failed, batches_done>>

\* dwl = _STACDownloader(item_coll=..., out_dir=..., **self.kwargs): the
\* attributes and the directory of a downloader that has not run yet
NewDownloader(items) ==
    /\ item_coll' = items
    /\ pc' = "attempt"
    /\ i' = 0
    /\ out_dirs' = NoDirs(Len(input_coll))
    /\ out_coll' = NoFile
    /\ ratio' = <<0, 0>>
    /\ reported' = <<>>
    /\ dir_size' = None

\* Downloader.run with by_collection=False: _download_ungrouped starts the
\* one downloader on the whole input in self.out_dir, and returns to run
\* when the downloader has returned
DownloadUngrouped ==
    /\ pc \in {"run", "returned"}
    /\ ~by_collection
    /\ IF pc = "run"
       THEN NewDownloader(input_coll)
       ELSE /\ pc' = "catalog"
            /\ UNCHANGED <<item_coll, i, out_dirs, out_coll, ratio, reported, dir_size>>
    /\ UNCHANGED <<cfg, row, written, fault, phase, batch_i, sgn, batch_files, tmp, catalog,
                   hist, cat, tsk, obj, prev_size, bar, waited>>

\* Downloader.run with by_collection=True: one turn of the loop of
\* _download_grouped over the rows of grouped_df, from the return of the
\* downloader of the row before, which leaves its item-collection.json in
\* the directory of its collection, to the start of the downloader of the
\* next row in self.out_dir/<collection>; after the last row, back to run
DownloadGrouped ==
    /\ pc \in {"run", "returned"}
    /\ by_collection
    /\ coll_files' = IF pc = "returned" THEN (row :> out_coll) @@ coll_files
                     ELSE coll_files
    /\ IF RowsAfter(row) # {}
       THEN /\ row' = SetMin(RowsAfter(row))
            /\ NewDownloader(RowItems(row'))
       ELSE /\ row' = 0
            /\ pc' = "catalog"
            /\ out_dirs' = NoDirs(Len(input_coll))
            /\ out_coll' = NoFile
            /\ UNCHANGED <<item_coll, i, ratio, reported, dir_size>>
    /\ UNCHANGED <<cfg, written, fault, phase, batch_i, sgn, batch_files, tmp, catalog,
                   hist, garbled, asset_abs, todo, mem, tsk, obj, prev_size, bar, waited>>

\* _create_and_save_catalog up to the os.listdir of the loop; of the
\* directories listed, the item directories of the flat mode hold no
\* item-collection.json and are passed over, todo holds the others
CatalogRoot ==
    /\ pc = "catalog"
    /\ LET r == LoadAndAddCollection(0, out_coll, 0 \in garbled)
       IN  IF out_coll.exists /\ r.err # ""
           THEN /\ pc' = "fault"
                /\ fault' = r.err
                /\ UNCHANGED <<out_coll, mem, todo>>
           ELSE /\ pc' = "cat_loop"
                /\ fault' = fault
                /\ mem' = IF out_coll.exists THEN r.coll ELSE <<>>
                /\ out_coll' = NoFile
                /\ todo' \in Perms(DOMAIN coll_files)
    /\ UNCHANGED <<cfg, dwl, written, prg, obj, tsk, i, phase, batch_i, sgn, out_dirs, batch_files,
                   tmp, res, hist, coll_files, garbled, asset_abs>>

\* one iteration of the loop over the collection directories
CatalogDir ==
    /\ pc = "cat_loop"
    /\ todo # <<>>
    /\ LET d == Head(todo)
           r == LoadAndAddCollection(d, coll_files[d], d \in garbled)
       IN  IF ~coll_files[d].exists
           THEN /\ todo' = Tail(todo)
                /\ UNCHANGED <<pc, fault, mem, coll_files>>
           ELSE IF r.err # ""
           THEN /\ pc' = "fault"
                /\ fault' = r.err
                /\ UNCHANGED <<todo, mem, coll_files>>
           ELSE /\ todo' = Tail(todo)
                /\ mem' = mem \o r.coll
                /\ coll_files' = [coll_files EXCEPT ![d] = NoFile]
                /\ UNCHANGED <<pc, fault>>
    /\ UNCHANGED <<cfg, dwl, written, prg, obj, tsk, i, phase, batch_i, sgn, fs, tmp, res, hist,
                   garbled, asset_abs>>

\* after the loop: normalize_hrefs, make_all_asset_hrefs_relative, save
CatalogSave ==
    /\ pc = "cat_loop"
    /\ todo = <<>>
    /\ pc' = "saved"
    /\ catalog' = Saved(mem)
    /\ UNCHANGED <<cfg, dwl, written, prg, obj, cat, tsk, fault, i, phase, batch_i, sgn, fs, tmp, ratio,
                   reported, hist>>

\* Downloader.run
Next ==
    \/ StartDownload
    \/ SignFail
    \/ SignOk
    \/ DownloadWrites
    \/ PreviewFetch
    \/ PreviewEnd
    \/ FetchBatch
    \/ Merge
    \/ ConsumerStart
    \/ ConsumerHandle
    \/ ConsumerExit
    \/ PollerRun
    \/ TimerFires
    \/ DownloadEvent
    \/ CleanupAndVerify
    \/ DownloadUngrouped
    \/ DownloadGrouped
    \/ CatalogRoot
    \/ CatalogDir
    \/ CatalogSave

Spec == Init /\ [][Next]_vars

\* a 25-item collection of one source collection with re-signing batch
\* size 10, every item of which downloads: grouped with the preview
\* (preview_size 10, the default), flat without it (preview_size 26)
InitC6 ==
    /\ input_coll = IdSeq(25)
    /\ colls = [k \in DOMAIN input_coll |-> 1]
    /\ by_collection \in BOOLEAN
    /\ retries = 1
    /\ reauth_batch_size = 10
    /\ preview_size = (IF by_collection THEN 10 ELSE 26)
    /\ flaky = {}
    /\ file_size = 0
    /\ InitState

SpecC6 == InitC6 /\ [][Next]_vars

\* items of several source collections whose ids are unique per source
\* collection only, so two items of the input may carry the same id; the
\* flat mode (by_collection=False) hands them to one _STACDownloader
InitFlat ==
    /\ \E n \in 2..MaxItems : input_coll \in [1..n -> 1..2]
    /\ colls = [k \in DOMAIN input_coll |-> CollOf(k)]
    /\ \A p, q \in DOMAIN input_coll :
           (p # q /\ colls[p] = colls[q]) => input_coll[p] # input_coll[q]
    /\ by_collection \in BOOLEAN
    /\ retries \in {1, MaxRetries}
    /\ reauth_batch_size \in {None, 1}
    /\ preview_size \in {2, MaxItems + 1}
    /\ flaky = Range(input_coll)
    /\ file_size = 0
    /\ InitState

SpecFlat == InitFlat /\ [][Next]_vars

\* downloads of files that have a size, all items of a downloader in one
\* batch, with and without the preview; the downloads of items 1 and 2 may
\* fail
InitProgress ==
    /\ \E n \in 2..MaxItems : input_coll = IdSeq(n)
    /\ colls = [k \in DOMAIN input_coll |-> CollOf(k)]
    /\ by_collection \in BOOLEAN
    /\ retries \in 1..MaxRetries
    /\ reauth_batch_size = MaxItems
    /\ preview_size \in {2, MaxItems + 1}
    /\ flaky = Range(input_coll) \cap {1, 2}
    /\ file_size = 1
    /\ InitState

SpecProgress == InitProgress /\ [][Next]_vars

\* _create_and_save_catalog on its own
NextCatalog ==
    \/ CatalogRoot
    \/ CatalogDir
    \/ CatalogSave

\* what the finished downloads leave for the catalog assembly: in the flat
\* mode one item-collection.json and the item directories in the root, in
\* the grouped mode one item-collection.json per collection directory, each
\* listing the items retrieved, and no item directory in the root; a file
\* may also be missing or unreadable
InitCatalog ==
    /\ input_coll = IdSeq(MaxItems)
    /\ colls = [k \in DOMAIN input_coll |-> CollOf(k)]
    /\ row = 0
    /\ retries = 1
    /\ reauth_batch_size = None
    /\ preview_size = MaxItems + 1
    /\ flaky = Range(input_coll)
    /\ geoms = DiagGeoms(MaxItems)
    /\ datetimes = IdSeq(MaxItems)
    /\ out_dir_abs \in BOOLEAN
    /\ item_links \in SUBSET {"url"}
    /\ asset_abs \in BOOLEAN
    /\ file_size = 0
    /\ InitRun
    /\ pc = "catalog"
    /\ \/ /\ by_collection = FALSE
          /\ item_coll = input_coll
          /\ out_coll \in {File(s) : s \in Retrieved(Range(input_coll))}
          /\ coll_files = <<>>
          /\ garbled = {}
       \/ /\ by_collection = TRUE
          /\ item_coll = RowItems(SetMax(GroupedDf))
          /\ out_coll = NoFile
          /\ coll_files \in
                 [CollDirs -> {NoFile} \cup
                     {File(s) : s \in Retrieved(Range(input_coll))}]
          /\ \A d \in CollDirs :
                 \A x \in Range(coll_files[d].items) : CollOf(x) = d
          /\ garbled \in SUBSET {d \in CollDirs : coll_files[d] = File(<<>>)}
    /\ out_dirs = [x \in Ids(MaxItems) |->
                      IF x \in Range(out_coll.items) THEN "files" ELSE "absent"]

SpecCatalog == InitCatalog /\ [][NextCatalog]_vars

\* the catalog assembly of one collection directory holding one or two
\* items, over all footprints and acquisition times of these items
InitExtent ==
    /\ input_coll = IdSeq(MaxItems)
    /\ colls = [k \in DOMAIN input_coll |-> 1]
    /\ by_collection = TRUE
    /\ item_coll = input_coll
    /\ row = 0
    /\ retries = 1
    /\ reauth_batch_size = None
    /\ preview_size = MaxItems + 1
    /\ flaky = Range(input_coll)
    /\ \E n \in {1, 2} :
          /\ coll_files = [d \in CollDirs |->
                               IF d = 1 THEN File(IdSeq(n)) ELSE NoFile]
          /\ \E g \in [1..n -> Boxes] :
                 geoms = [x \in Ids(MaxItems) |->
                             IF x <= n THEN g[x] ELSE <<0, 0, 1, 1>>]
          /\ \E t \in [1..n -> 1..MaxTime] :
                 datetimes = [x \in Ids(MaxItems) |->
                                 IF x <= n THEN t[x] ELSE 1]
    /\ out_dir_abs = FALSE
    /\ item_links = {}
    /\ asset_abs = FALSE
    /\ file_size = 0
    /\ InitRun
    /\ pc = "catalog"
    /\ out_coll = NoFile
    /\ garbled = {}
    /\ out_dirs = NoDirs(MaxItems)

SpecExtent == InitExtent /\ [][NextCatalog]_vars

\* ------------------------------------------------------------------ claims
\* batch sizes of the calls of _sign_metadata that returned, of one phase
SignedSizes(ph) ==
    LET calls == SelectSeq(sign_log, LAMBDA c : c[1] = ph)
    IN  [k \in DOMAIN calls |-> calls[k][2]]

\* the last _STACDownloader.run has returned: reported holds what it printed
LoopOver ==
    \/ pc \in {"returned", "catalog", "cat_loop", "saved"}
    \/ (pc = "fault" /\ reported # <<>>)

\* the positions inside _STACDownloader.run
InRun == pc \in {"attempt", "sign", "fetch", "pre_end", "merge", "cleanup"}

\* ceil(n / b)
CeilDiv(n, b) == (n + b - 1) \div b

\* C1: a verification with ratio < 1.0 before the last iteration starts the
\* next attempt; the loop never runs more than retries iterations and stops
\* after the last one whatever the ratio; the reported ratio is the ratio of
\* the last attempt executed, i.e. of the item-collection.json it left.
C1_RetryBudget ==
    /\ [][(pc = "cleanup" /\ ratio'[1] < ratio'[2]
           /\ i + 1 < retries) => (pc' = "attempt" /\ i' = i + 1)]_vars
    /\ [][(pc = "cleanup" /\ i + 1 = retries)
          => (pc' = "returned" /\ i' = i /\ reported' = ratio')]_vars
    /\ [](i < retries)
    /\ [](pc = "returned"
          => (reported = ratio
              /\ reported = <<Len(out_coll.items), Len(item_coll)>>))

C1_Witness ==
    /\ pc = "returned"
    /\ retries >= 2
    /\ i = retries - 1
    /\ reported[1] < reported[2]
    /\ reported[1] >= 1

\* C2: an attempt that ends with ratio == 1.0 ends the loop: run returns, no
\* further attempt of this downloader starts, and afterwards nothing signs,
\* fetches or cleans up in its directory; what follows is the downloader of
\* the next collection, in another directory, or the catalog assembly.
C2_CompleteStops ==
    /\ [][(pc = "cleanup" /\ ratio'[1] = ratio'[2])
          => (pc' = "returned" /\ i' = i)]_vars
    /\ [][(pc = "returned" /\ reported[1] = reported[2])
          => (/\ pc' \in {"attempt", "catalog"}
              /\ pc' = "attempt" => (by_collection /\ row' > row /\ i' = 0
                                     /\ item_coll' = RowItems(row'))
              /\ UNCHANGED <<sign_log, sign_failed, batches_done, cleaned,
                             batch_files, tmp>>)]_vars
    /\ [][(pc \in {"catalog", "cat_loop"})
          => (/\ pc' \in {"cat_loop", "saved", "fault"}
              /\ UNCHANGED <<i, sign_log, sign_failed, batches_done, cleaned,
                             out_dirs, batch_files, tmp>>)]_vars

C2_Witness ==
    /\ pc = "saved"
    /\ reported[1] = reported[2]
    /\ i + 1 < retries

\* C3 (as claimed): once the budget is exhausted with ratio < 1.0, for every
\* final ratio including 0, the run completes without a fault.
C3_ExhaustedNoFault ==
    (LoopOver /\ reported[1] < reported[2]) => fault = ""

\* C4: the collection of a downloader never changes while it runs; every
\* attempt hands all batches of the whole collection to the download,
\* whatever earlier attempts retrieved, and with re-signing on signs each of
\* them; every ratio has the length of the original collection as
\* denominator.
C4_FullCollectionEveryAttempt ==
    /\ [][InRun => item_coll' = item_coll]_vars
    /\ [](pc = "merge"
          => (/\ Flatten(batches_done) = item_coll
              /\ reauth_batch_size # None
                 => SignedSizes("full")
                      = [k \in DOMAIN batches_done |-> Len(batches_done[k])]))
    /\ [](ratio # <<0, 0>> => ratio[2] = Len(item_coll))
    /\ []((InRun \/ pc = "returned")
          => item_coll = (IF by_collection THEN RowItems(row) ELSE input_coll))

C4_Witness ==
    /\ pc = "merge"
    /\ i >= 1
    /\ \E d \in Range(item_coll) : out_dirs[d] = "files"
    /\ \E d \in Range(item_coll) : out_dirs[d] = "empty"
    /\ Flatten(batches_done) = item_coll

\* C5: for N >= 1 items and batch size b >= 1 the batches of an attempt are
\* contiguous slices that partition the collection: their concatenation is
\* the collection, there are ceil(N / b) of them, each of b items except
\* possibly the last, which has between 1 and b items.
C5_BatchesPartition ==
    (pc = "merge" /\ reauth_batch_size >= 1) =>
        LET n == Len(item_coll)
            b == reauth_batch_size
            m == Len(batches_done)
        IN  /\ Flatten(batches_done) = item_coll
            /\ m = CeilDiv(n, b)
            /\ \A k \in 1..(m - 1) : Len(batches_done[k]) = b
            /\ Len(batches_done[m]) \in 1..b
            /\ \A k \in 1..m :
                   batches_done[k] = SubSeq(item_coll, (k - 1) * b + 1,
                                            Min(k * b, n))

C5_Witness ==
    /\ pc = "merge"
    /\ Len(item_coll) = 3
    /\ reauth_batch_size = 2
    /\ Len(batches_done) = 2
    /\ Len(batches_done[2]) = 1

C7_SignedOnce ==
    (pc = "merge" /\ reauth_batch_size = None) =>
        (batches_done = <<item_coll>> /\ Len(SignedSizes("full")) = 1)

\* C7 (amended): with reauth_batch_size None the whole collection is one
\* batch and no signing call is made for it, nor for the preview.
C7_NeverSigned ==
    reauth_batch_size = None =>
        /\ pc # "sign"
        /\ sign_log = <<>>
        /\ ~sign_failed
        /\ pc = "merge" => batches_done = <<item_coll>>

C7_Witness ==
    /\ pc = "merge"
    /\ reauth_batch_size = None
    /\ Len(item_coll) >= 2
    /\ batches_done = <<item_coll>>

\* C8: a signing failure keeps the run in the signing loop of the same batch
\* of the same attempt; a batch is fetched only once signed; a streak of
\* f >= 1 failures prints one "paused" line, at its first failure, and one
\* "resumed" line, after the signing that succeeds; no failure, no line.
C8_SigningRetried ==
    /\ [][(pc = "sign" /\ on_hold_count' > on_hold_count)
          => (/\ pc' = "sign" /\ ~signed' /\ fault' = ""
              /\ UNCHANGED <<i, phase, batch_i, batches_done>>
              /\ paused_log' = 1
              /\ paused_log = (IF on_hold_count = 0 THEN 0 ELSE 1))]_vars
    /\ []((pc = "sign") => (~signed /\ resumed_log = 0))
    /\ []((pc = "fetch" /\ reauth_batch_size # None)
          => (/\ signed
              /\ paused_log = (IF on_hold_count >= 1 THEN 1 ELSE 0)
              /\ resumed_log = (IF on_hold_count >= 1 THEN 1 ELSE 0)))

C8_Witness ==
    /\ pc = "fetch"
    /\ on_hold_count = 2
    /\ paused_log = 1
    /\ resumed_log = 1
    /\ signed

\* C9 (as claimed): when a batch after the first begins signing, the fetch
\* and the cleanup of the batches before it have completed.
C9_FetchAndCleanupBefore ==
    (pc = "sign" /\ phase = "full" /\ batch_i > 0) =>
        /\ DOMAIN batch_files
             = {k \in BatchStarts(Len(item_coll), CurBatchSize) : k < batch_i}
        /\ cleaned

\* C9 (amended): when a batch begins signing or is fetched, the fetch of
\* every batch before it has completed and left its artifact; the cleanup
\* pass does not run between batches but once, after the merge.
C9_FetchBefore ==
    /\ (pc \in {"sign", "fetch"} /\ phase = "full") =>
           /\ DOMAIN batch_files
                = {k \in BatchStarts(Len(item_coll), CurBatchSize) : k < batch_i}
           /\ Len(batches_done) = Cardinality(DOMAIN batch_files)
           /\ ~cleaned
    /\ pc = "merge" =>
           /\ DOMAIN batch_files = BatchStarts(Len(item_coll), CurBatchSize)
           /\ ~cleaned

C9_Witness ==
    /\ pc = "sign"
    /\ phase = "full"
    /\ batch_i > 0
    /\ \E d \in Range(item_coll) : out_dirs[d] = "empty"

\* C10: the item-collection.json the merge writes holds every item of every
\* per-batch artifact of the attempt exactly as often as the artifacts do,
\* nothing else, and the artifacts are gone.
C10_MergeExact ==
    pc = "cleanup" =>
        /\ out_coll.exists
        /\ SameBag(out_coll.items, Flatten(batches_done))
        /\ Len(out_coll.items) = Len(Flatten(batches_done))
        /\ \A x \in Range(item_coll) : Count(out_coll.items, x) = 1
        /\ batch_files = <<>>

C10_Witness ==
    /\ pc = "cleanup"
    /\ i >= 1
    /\ Len(item_coll) = 3
    /\ reauth_batch_size = 2
    /\ out_coll.items # item_coll

\* C11 (as claimed): the cleanup pass of an attempt removes every item
\* directory that holds no file, and the item-collection.json it writes
\* does not list the item of such a directory.
C11_EmptyDirsPruned ==
    [][(pc = "cleanup" /\ pc' # "fault")
       => \A d \in DOMAIN out_dirs :
              out_dirs[d] = "empty"
              => (out_dirs'[d] = "absent" /\ d \notin Range(out_coll'.items))]_vars

\* C12 (as claimed): after the cleanup pass of every attempt the
\* item-collection.json lists exactly the items whose directory holds files.
C12_ListedIffNonEmpty ==
    (cleaned /\ pc \in {"attempt", "returned"}) =>
        /\ \A x \in Range(out_coll.items) : out_dirs[x] = "files"
        /\ \A d \in DOMAIN out_dirs :
               out_dirs[d] = "files" => d \in Range(out_coll.items)

\* C17 (as claimed): the merged collection lists the items in the order of
\* the original collection (the per-batch files are concatenated in batch
\* order), and no per-batch file remains after the merge.
C17_MergeInBatchOrder ==
    pc = "cleanup" => (out_coll.items = item_coll /\ batch_files = <<>>)

\* C18 (as claimed): the cleanup pass after the preview download completes
\* without a fault for every batch size, several preview batches included.
C18_PreviewCleanupNoFault ==
    ~(pc = "fault" /\ phase = "preview")

\* C19: during the preview nothing under out_dir changes, and the scratch
\* directory exists only while the preview runs: it is gone once the full
\* download has begun and once an exception has ended the preview.
C19_PreviewScratchOnly ==
    /\ [][phase = "preview" => UNCHANGED <<out_dirs, batch_files, out_coll>>]_vars
    /\ [](tmp_exists => (phase = "preview" /\ pc \in {"sign", "fetch", "pre_end"}))
    /\ []((pc = "fault" \/ phase = "full") => ~tmp_exists)
    /\ [][(pc = "fetch" /\ phase = "preview"
              /\ (pc' # "fetch" \/ batch_i' # batch_i))
          => ((written # {} \/ tmp_dirs' # tmp_dirs) /\ tmp_coll'.exists)]_vars

C19_Witness ==
    /\ pc = "fault"
    /\ phase = "preview"
    /\ fault = "ValueError"
    /\ ~tmp_exists
    /\ \A d \in DOMAIN out_dirs : out_dirs[d] = "absent"

\* C13: every collection of the saved catalog carries as spatial extent the
\* box [min x, min y, max x, max y] over the footprints of its items and as
\* temporal extent [min, max] of their acquisition times; two unit squares
\* at (0,0) and (1,1) give [0, 0, 2, 2].
C13_Extent ==
    catalog.saved =>
        \A k \in DOMAIN catalog.colls :
            LET c == catalog.colls[k]
                I == Range(c.items)
            IN  /\ I # {}
                /\ c.extent.bbox = <<SetMin({geoms[x][1] : x \in I}),
                                     SetMin({geoms[x][2] : x \in I}),
                                     SetMax({geoms[x][3] : x \in I}),
                                     SetMax({geoms[x][4] : x \in I})>>
                /\ \A x \in I : /\ c.extent.interval[1] <= datetimes[x]
                                /\ datetimes[x] <= c.extent.interval[2]
                /\ \E x \in I : c.extent.interval[1] = datetimes[x]
                /\ \E x \in I : c.extent.interval[2] = datetimes[x]
                /\ (\A x \in I : geoms[x] \in {<<0, 0, 1, 1>>, <<1, 1, 2, 2>>}
                               /\ \E y \in I : geoms[y] # geoms[x])
                   => c.extent.bbox = <<0, 0, 2, 2>>

C13_Witness ==
    /\ catalog.saved
    /\ Len(catalog.colls) = 1
    /\ catalog.colls[1].items = <<1, 2>>
    /\ geoms[1] = <<0, 0, 1, 1>>
    /\ geoms[2] = <<1, 1, 2, 2>>
    /\ datetimes[1] > datetimes[2]
    /\ catalog.colls[1].extent.bbox = <<0, 0, 2, 2>>

\* C14 (as claimed): when the assembly is over, every collection directory
\* whose item-collection.json was usable has its items in the saved catalog
\* or still has its item-collection.json, when the file of another
\* directory is unreadable or missing (and none lists zero items).
C14_SiblingsKept ==
    (/\ pc \in {"saved", "fault"}
     /\ \A e \in DOMAIN coll_files \ garbled :
            coll_files[e].exists => coll_files[e].items # <<>>) =>
        \A d \in DOMAIN coll_files :
            \/ coll_files[d].exists
            \/ catalog.saved /\ \E k \in DOMAIN catalog.colls :
                                    catalog.colls[k].dir = d
            \/ \A k \in DOMAIN mem : mem[k].dir # d

\* C16 (as claimed): every href in the files of the saved catalog (links of
\* catalog.json, of the collection and item files, asset hrefs) is a
\* relative path, whether out_dir is relative or absolute.
C16_HrefsRelative ==
    catalog.saved => \A h \in catalog.hrefs : h[3] = "rel"

\* C15: the None that ends a session is put when the download of the last
\* batch of the session has returned, and no batch is signed or fetched
\* while it is in the queue; the consumer takes it out, ends on it and
\* cancels the poller; when _async_download leaves its wait for the consumer (to merge,
\* or to clean up the preview) the consumer has returned and the poller has
\* ended.
C15_SentinelEndsSession ==
    /\ [](sentinel => pc \notin {"sign", "fetch"})
    /\ [][(~sentinel /\ sentinel')
          => (/\ pc = "fetch"
              /\ pc' \in {"merge", "pre_end"}
              /\ batch_i + CurBatchSize >= Len(PhaseColl)
              /\ phase = "full" => Flatten(batches_done') = item_coll)]_vars
    /\ [][(consumer # "done" /\ consumer' = "done")
          => (/\ sentinel /\ ~sentinel'
              /\ n_msgs = 0
              /\ poller' \in {"cancelled", "ended"})]_vars
    /\ [][(pc \in {"merge", "pre_end"} /\ pc' # pc)
          => (consumer = "done" /\ poller = "ended")]_vars
    /\ [](pc = "cleanup" => (consumer = "done" /\ poller = "ended" /\ ready = <<>>))

C15_Witness ==
    /\ pc = "cleanup"
    /\ ~sentinel
    /\ n_msgs = 0
    /\ consumer = "done"
    /\ poller = "ended"
    /\ Len(batches_done) >= 2

\* C20 (as claimed): while the signing of a batch is being retried, after
\* the backoff sleep, a task that is ready to run (consumer or poller) can
\* be run by the event loop.
C20_BackoffSuspends ==
    (Sleeping /\ ready # <<>>) =>
        ENABLED (ConsumerStart \/ ConsumerHandle \/ ConsumerExit \/ PollerRun)

\* C21: no two distinct items of the input collection that were handed to a
\* fetch of the attempt, in one batch or in different batches, are written to
\* the same directory
C21_OwnDirectory ==
    \A p, q \in DOMAIN Flatten(batches_done) :
        p # q => ItemDir(Flatten(batches_done)[p]) # ItemDir(Flatten(batches_done)[q])

C23_BarIsLastObserved ==
    [][ /\ bar' = prev_size'
        /\ (prev_size' # prev_size /\ consumer' = "waiting" /\ consumer = "waiting")
               => prev_size' = dir_size
        /\ (dir_size' # dir_size /\ dir_size' # None)
               => /\ poller \in {"created", "sleeping"}
                  /\ poller' = "sleeping"
                  /\ n_msgs' = n_msgs
                  /\ consumer' = consumer
                  /\ dir_size' = SessionDirSize ]_vars

C23_Witness ==
    /\ consumer = "waiting"
    /\ LoopRuns("consumer")
    /\ n_msgs > 1
    /\ bar > 0
    /\ bar = prev_size
    /\ dir_size # prev_size

====
